---------------------------- MODULE Spec2Model ----------------------------
(***************************************************************************)
(* QuickTech: the in-memory storage module (MemStorage, in its two         *)
(* versions), the profile card and the referral card.                      *)
(*                                                                         *)
(* A JavaScript Map is a sequence of [key, value] entries in insertion     *)
(* order.  The JavaScript values undefined and null are the two strings    *)
(* UNDEFINED and NULL; an absent object is the record NoRecord.            *)
(***************************************************************************)
EXTENDS Integers, Sequences, FiniteSets, TLC

\* ------------------------------------------------------------------ bounds
MaxTime == 1          \* ticks of the wall clock
MaxCalls == 3         \* storage calls made by callers
MaxSaves == 2         \* handleSave invocations
MaxCopies == 2        \* copyToClipboard invocations

\* ------------------------------------------------------- JavaScript values
UNDEFINED == "<undefined>"
NULL == "<null>"
NoRecord == [undefined |-> TRUE]

\* { ...a, ...b }: the fields of a, overridden and extended by those of b
Spread(a, b) == b @@ a

\* obj.field, undefined when the object has no such property
Prop(obj, field) == IF field \in DOMAIN obj THEN obj[field] ELSE UNDEFINED

\* a comparison that keeps the case: no lower-casing at all
ToLowerCaseKeepsCase(s) == s

\* String.prototype.toLowerCase on the strings of the model
ToLowerCase(s) ==
  CASE s = "TestUser" -> "testuser"
    [] s = "ADMIN" -> "admin"
    [] s = "Test@Example.com" -> "test@example.com"
    [] OTHER -> s

\* Map.prototype.has / get / set / values
MapHas(m, k) == \E i \in 1..Len(m) : m[i].key = k
MapGet(m, k) ==
  IF MapHas(m, k)
    THEN m[CHOOSE i \in 1..Len(m) : m[i].key = k].value
    ELSE NoRecord
\* a map whose set moves an existing key to the end
MapSetMovesToEnd(m, k, v) ==
  LET Other(entry) == entry.key # k
  IN  Append(SelectSeq(m, Other), [key |-> k, value |-> v])
MapSet(m, k, v) ==
  IF MapHas(m, k)
    THEN [i \in 1..Len(m) |-> IF m[i].key = k THEN [key |-> k, value |-> v] ELSE m[i]]
    ELSE Append(m, [key |-> k, value |-> v])
MapValues(m) == [i \in 1..Len(m) |-> m[i].value]

\* Array.prototype.find, given the indices of the elements passing the
\* test: the first such element, or undefined
Find(arr, passing) ==
  IF passing = {}
    THEN NoRecord
    ELSE arr[CHOOSE i \in passing : \A j \in passing : i <= j]

\* --------------------------------------------------- the service catalogs
CatalogV1 ==
  << [name |-> "Aadhaar-PAN Linking", category |-> "Identity", price |-> 300, badge |-> "Mandatory Service"],
     [name |-> "E-Shram Card", category |-> "Employment", price |-> 200, badge |-> "Worker Benefits"],
     [name |-> "Aadhaar Card", category |-> "Identity", price |-> 500, badge |-> "Fast Processing"],
     [name |-> "PAN Card", category |-> "Identity", price |-> 750, badge |-> "Government Authorized"],
     [name |-> "Driving License", category |-> "Licenses", price |-> 1200, badge |-> "Complete Assistance"],
     [name |-> "Passport", category |-> "Travel", price |-> 2500, badge |-> "Priority Service"],
     [name |-> "Domicile Certificate", category |-> "Certificates", price |-> 1500, badge |-> "State Document"],
     [name |-> "Income Certificate", category |-> "Certificates", price |-> 1200, badge |-> "Income Proof"],
     [name |-> "CSC Education Services", category |-> "Education", price |-> 400, badge |-> "Skill Development"],
     [name |-> "CSC Utility Services", category |-> "Utilities", price |-> 200, badge |-> "Quick Service"],
     [name |-> "CSC Agriculture Services", category |-> "Agriculture", price |-> 350, badge |-> "Farmer Support"],
     [name |-> "CSC G2C Services", category |-> "Government", price |-> 250, badge |-> "Government Schemes"],
     [name |-> "Caste Certificate", category |-> "Identity", price |-> 300, badge |-> "Government Verified"],
     [name |-> "Birth Certificate", category |-> "Identity", price |-> 400, badge |-> "Essential Document"],
     [name |-> "Death Certificate", category |-> "Legal", price |-> 400, badge |-> "Priority Processing"],
     [name |-> "Marriage Certificate", category |-> "Legal", price |-> 600, badge |-> "Legal Document"],
     [name |-> "GST Registration", category |-> "Business", price |-> 1000, badge |-> "Business Essential"],
     [name |-> "ESIC Registration", category |-> "Business", price |-> 800, badge |-> "Employee Welfare"],
     [name |-> "PF Registration", category |-> "Business", price |-> 800, badge |-> "Retirement Security"],
     [name |-> "ITR Filing", category |-> "Finance", price |-> 500, badge |-> "Tax Compliance"],
     [name |-> "PMAY Application", category |-> "Welfare", price |-> 300, badge |-> "Housing Scheme"],
     [name |-> "Ayushman Bharat Card", category |-> "Healthcare", price |-> 200, badge |-> "Healthcare"],
     [name |-> "Pension Certificate", category |-> "Welfare", price |-> 400, badge |-> "Senior Care"],
     [name |-> "MGNREGA Job Card", category |-> "Employment", price |-> 100, badge |-> "Rural Employment"],
     [name |-> "Property Registration", category |-> "Property", price |-> 2000, badge |-> "Legal Property"],
     [name |-> "Land Records", category |-> "Property", price |-> 300, badge |-> "Digital Records"],
     [name |-> "Utility Connections", category |-> "Utilities", price |-> 600, badge |-> "Essential Services"],
     [name |-> "CSC Healthcare Services", category |-> "Healthcare", price |-> 300, badge |-> "Health Support"],
     [name |-> "CSC Digital Services", category |-> "Digital", price |-> 450, badge |-> "Digital Empowerment"],
     [name |-> "CSC Travel Services", category |-> "Travel", price |-> 250, badge |-> "Travel Solutions"],
     [name |-> "Certificates", category |-> "Government", price |-> 400, badge |-> "Digital Delivery"],
     [name |-> "Property Documents", category |-> "Property", price |-> 3000, badge |-> "Expert Assistance"],
     [name |-> "Business Services", category |-> "Business", price |-> 5000, badge |-> "Business Solutions"],
     [name |-> "Domicile Certificate", category |-> "Certificates", price |-> 1500, badge |-> "State Document"],
     [name |-> "Income Certificate", category |-> "Certificates", price |-> 1200, badge |-> "Income Proof"],
     [name |-> "Voter ID", category |-> "Identity", price |-> 800, badge |-> "Electoral ID"],
     [name |-> "Ration Card", category |-> "Identity", price |-> 1000, badge |-> "Essential Document"] >>

CatalogV2 ==
  << [name |-> "Voter ID Card (EPIC)", category |-> "Identity", price |-> 100, badge |-> "Electoral Document"],
     [name |-> "Aadhaar Card", category |-> "Identity", price |-> 50, badge |-> "Essential"],
     [name |-> "PAN Card", category |-> "Identity", price |-> 150, badge |-> "Tax Document"],
     [name |-> "Birth Certificate", category |-> "Identity", price |-> 300, badge |-> "Essential"],
     [name |-> "Income Certificate", category |-> "Financial", price |-> 200, badge |-> "Income Proof"],
     [name |-> "Domicile Certificate", category |-> "Identity", price |-> 150, badge |-> "Residence Proof"],
     [name |-> "Passport", category |-> "Identity", price |-> 2500, badge |-> "Travel Document"],
     [name |-> "Marriage Certificate", category |-> "Legal", price |-> 500, badge |-> "Legal Document"],
     [name |-> "GST Registration", category |-> "Business", price |-> 1000, badge |-> "Business"],
     [name |-> "Aadhaar-PAN Linking", category |-> "Identity", price |-> 50, badge |-> "Essential"],
     [name |-> "E-Shram Card", category |-> "Employment", price |-> 100, badge |-> "Labor Welfare"] >>


Catalog(v) == IF v = 1 THEN CatalogV1 ELSE CatalogV2

\* ------------------------------------------------------------------ state
VARIABLES
  version,            \* 1: the earlier storage module, 2: the later one
  users, services, orders,
  userIdCounter, serviceIdCounter, orderIdCounter,
  seedPc,             \* where initializeTestUser is suspended
  existingUser,       \* initializeTestUser's local
  adminUser,          \* initializeTestUser's local
  now,                \* the wall clock read by new Date()
  ret,                \* the last storage call and the value it resolved to
  userIdsReturned,    \* history: ids returned by createUser, in call order
  calls               \* storage calls made by callers so far

storeVars ==
  << version, users, services, orders, userIdCounter, serviceIdCounter,
     orderIdCounter, seedPc, existingUser, adminUser, now, ret,
     userIdsReturned, calls >>

\* ------------------------------------------------- MemStorage, pure parts
\* createUser on a users map and counter: the new map, counter and result
\* createUser with the input spread last, so that its role and id win
NewUserInputWins(insertUser, id, date) ==
  LET phone == IF Prop(insertUser, "phone") = UNDEFINED THEN NULL ELSE insertUser.phone
      address == IF Prop(insertUser, "address") = UNDEFINED THEN NULL ELSE insertUser.address
  IN  Spread([phone |-> phone, address |-> address, id |-> id,
              role |-> "user", created_at |-> date], insertUser)

NewUser(insertUser, id, date) ==
  LET phone == IF Prop(insertUser, "phone") = UNDEFINED THEN NULL ELSE insertUser.phone
      address == IF Prop(insertUser, "address") = UNDEFINED THEN NULL ELSE insertUser.address
  IN  Spread(insertUser, [phone |-> phone, address |-> address, id |-> id,
                          role |-> "user", created_at |-> date])

\* createService with the input spread last, so that its fields win
NewServiceInputWins(insertService, id, date) ==
  LET badge == IF Prop(insertService, "badge") = UNDEFINED THEN NULL ELSE insertService.badge
  IN  Spread([badge |-> badge, id |-> id, created_at |-> date], insertService)

NewService(insertService, id, date) ==
  LET badge == IF Prop(insertService, "badge") = UNDEFINED THEN NULL ELSE insertService.badge
  IN  Spread(insertService, [badge |-> badge, id |-> id, created_at |-> date])

\* createOrder keeping the reference only when the user exists
NewOrderChecksUser(insertOrder, id, date) ==
  Spread(insertOrder,
         [id |-> id, status |-> "pending", payment_status |-> "pending",
          created_at |-> date, updated_at |-> date,
          user_id |-> IF MapHas(users, insertOrder.user_id)
                        THEN insertOrder.user_id ELSE 0])

\* createOrder with the input spread last, so that its fields win
NewOrderInputWins(insertOrder, id, date) ==
  Spread([id |-> id, status |-> "pending", payment_status |-> "pending",
          created_at |-> date, updated_at |-> date], insertOrder)

NewOrder(insertOrder, id, date) ==
  Spread(insertOrder, [id |-> id, status |-> "pending", payment_status |-> "pending",
                       created_at |-> date, updated_at |-> date])

\* services.forEach / services.map(service => this.createService(service))
CreateServices(list, svcs, counter, date) ==
  LET step[k \in 0..Len(list)] ==
        IF k = 0
          THEN [services |-> svcs, serviceIdCounter |-> counter, results |-> << >>]
          ELSE LET prev == step[k - 1]
                   id == prev.serviceIdCounter
                   service == NewService(list[k], id, date)
               IN  [serviceIdCounter |-> id + 1,
                    services |-> MapSet(prev.services, id, service),
                    results |-> Append(prev.results, service)]
  IN  step[Len(list)]

\* the read-only accessors
getUser(id) == MapGet(users, id)
getUserByUsername(username) ==
  LET all == MapValues(users)
  IN  Find(all, { i \in 1..Len(all) :
                    ToLowerCase(all[i].username) = ToLowerCase(username) })
getUserByEmail(email) ==
  LET all == MapValues(users)
  IN  Find(all, { i \in 1..Len(all) :
                    ToLowerCase(all[i].email) = ToLowerCase(email) })
getServicesByCategory(category) ==
  LET Test(service) == service.category = category
  IN  SelectSeq(MapValues(services), Test)
getService(id) == MapGet(services, id)
getOrders == MapValues(orders)
getOrdersByUserId(userId) ==
  LET Test(order) == order.user_id = userId
  IN  SelectSeq(MapValues(orders), Test)
getOrder(id) == MapGet(orders, id)

\* ------------------------------------------------------------ UI state
VARIABLES
  authUser,           \* useAuth().user: a user record, or NoRecord
  isEditing, formData,
  saves,              \* bodies of the PUT requests in flight, in sending order
  saveCount,          \* handleSave invocations so far
  lastResponse,       \* how the request settled last ended
  profileToasts,      \* titles of the toasts the profile card raised
  lastTyped,          \* history: per field, the last value put in the form
  origin,             \* window.location.origin
  copied,
  copies,             \* copyToClipboard invocations: link and progress
  timers,             \* pending setTimeout callbacks
  clipboard,          \* the system clipboard's text
  referralToasts      \* titles of the toasts the referral card raised

profileVars ==
  << isEditing, formData, saves, saveCount, lastResponse, profileToasts, lastTyped >>
referralVars == << origin, copied, copies, timers, clipboard, referralToasts >>
vars == << storeVars, authUser, profileVars, referralVars >>

\* --------------------------------------------------- inputs of the store
TestUserInput ==
  [username |-> "testuser", password |-> "hashed:password123", name |-> "Test User",
   email |-> "test@example.com", phone |-> "9876543210",
   address |-> "Test Address, Mumbai, India"]
AdminUserInput ==
  [username |-> "admin", password |-> "hashed:admin123", name |-> "Admin User",
   email |-> "admin@quicktech.com", phone |-> "9876543211",
   address |-> "Admin Office, Delhi, India"]

\* what callers pass to createUser: a clash with the seed's username in
\* another case and in the same case, optional fields left out, and a role
\* and id of their own
UserInputs ==
  { [username |-> "TestUser", password |-> "h", name |-> "Other",
     email |-> "Test@Example.com"],
    [username |-> "testuser", password |-> "h", name |-> "Twin", email |-> "twin@x.in"],
    [username |-> "bob", password |-> "h", name |-> "Bob", email |-> "bob@x.in",
     phone |-> "1", role |-> "admin", id |-> 99] }

ServiceInputs ==
  { [name |-> "Custom", category |-> "Identity", price |-> 10],
    [name |-> "Other", category |-> "Misc", price |-> 20, badge |-> "New", id |-> 1] }

OrderInputs ==
  { [user_id |-> 1, service_id |-> 1],
    [user_id |-> 7, service_id |-> 2, status |-> "completed",
     payment_status |-> "paid", id |-> 1] }

OrderStatuses == { "pending", "processing", "completed" }
PaymentStatuses == { "pending", "paid" }
OrderIds == { 1, 2 }

\* ------------------------------------------------------ MemStorage, Init
\* the constructor: empty maps, counters at 1, initializeServices, and
\* initializeTestUser run up to its first await
SeededServices(v) ==
  IF v = 1
    THEN CreateServices(CatalogV1, << >>, 1, 0)
    ELSE [services |-> << >>, serviceIdCounter |-> 1, results |-> << >>]

StoreInit ==
  /\ version \in {1, 2}
  /\ users = << >>
  /\ services = SeededServices(version).services
  /\ orders = << >>
  /\ userIdCounter = 1
  /\ serviceIdCounter = SeededServices(version).serviceIdCounter
  /\ orderIdCounter = 1
  /\ seedPc = "import"
  /\ existingUser = NoRecord
  /\ adminUser = NoRecord
  /\ now = 0
  /\ ret = [op |-> "constructor", value |-> NoRecord]
  /\ userIdsReturned = << >>
  /\ calls = 0

\* --------------------------------------------------- MemStorage, actions
userPart == << users, userIdCounter, userIdsReturned >>
servicePart == << services, serviceIdCounter >>
orderPart == << orders, orderIdCounter >>
seedPart == << seedPc, existingUser, adminUser >>

\* a call made by a caller of the storage module
Call ==
  /\ calls < MaxCalls
  /\ calls' = calls + 1

Tick ==
  /\ now < MaxTime
  /\ now' = now + 1
  /\ UNCHANGED << version, userPart, servicePart, orderPart, seedPart, ret, calls >>

\* createUser with the counter read but not advanced
DoCreateUserNoIncrement(insertUser) ==
  LET id == userIdCounter
      user == NewUser(insertUser, id, now)
  IN  /\ userIdCounter' = userIdCounter
      /\ users' = MapSet(users, id, user)
      /\ ret' = [op |-> "createUser", value |-> user]
      /\ userIdsReturned' = Append(userIdsReturned, user.id)

\* the body of createUser, shared by callers and the seed
DoCreateUser(insertUser) ==
  LET id == userIdCounter
      user == NewUser(insertUser, id, now)
  IN  /\ userIdCounter' = userIdCounter + 1
      /\ users' = MapSet(users, id, user)
      /\ ret' = [op |-> "createUser", value |-> user]
      /\ userIdsReturned' = Append(userIdsReturned, user.id)

createUser ==
  /\ Call
  /\ \E insertUser \in UserInputs : DoCreateUser(insertUser)
  /\ UNCHANGED << version, servicePart, orderPart, seedPart, now >>

\* initializeTestUser, one action per stretch between two awaits
SeedLookup ==
  /\ seedPc = "import"
  /\ existingUser' = getUserByUsername("testuser")
  /\ seedPc' = "lookup"
  /\ UNCHANGED << version, userPart, servicePart, orderPart, adminUser, now, ret, calls >>

SeedCheck ==
  /\ seedPc = "lookup"
  /\ seedPc' = IF existingUser = NoRecord THEN "hash1" ELSE "done"
  /\ UNCHANGED << version, userPart, servicePart, orderPart, existingUser, adminUser,
                  now, ret, calls >>

SeedCreateTestUser ==
  /\ seedPc = "hash1"
  /\ DoCreateUser(TestUserInput)
  /\ seedPc' = "created1"
  /\ UNCHANGED << version, servicePart, orderPart, existingUser, adminUser, now, calls >>

SeedHashAdmin ==
  /\ seedPc = "created1"
  /\ seedPc' = "hash2"
  /\ UNCHANGED << version, userPart, servicePart, orderPart, existingUser, adminUser,
                  now, ret, calls >>

SeedCreateAdmin ==
  /\ seedPc = "hash2"
  /\ DoCreateUser(AdminUserInput)
  /\ adminUser' = ret'.value
  /\ seedPc' = "created2"
  /\ UNCHANGED << version, servicePart, orderPart, existingUser, now, calls >>

SeedElevate ==
  /\ seedPc = "created2"
  /\ users' = MapSet(users, adminUser.id, Spread(adminUser, [role |-> "admin"]))
  /\ seedPc' = "done"
  /\ UNCHANGED << version, userIdCounter, userIdsReturned, servicePart, orderPart,
                  existingUser, adminUser, now, ret, calls >>

createService ==
  /\ Call
  /\ \E insertService \in ServiceInputs :
       LET id == serviceIdCounter
           service == NewService(insertService, id, now)
       IN  /\ serviceIdCounter' = serviceIdCounter + 1
           /\ services' = MapSet(services, id, service)
           /\ ret' = [op |-> "createService", value |-> service]
  /\ UNCHANGED << version, userPart, orderPart, seedPart, now >>

\* getServices of version 2 clearing the map and the counter before it reseeds
GetServicesReseeding(v, svcs, counter, date) ==
  IF v = 1
    THEN [services |-> svcs, serviceIdCounter |-> counter, results |-> MapValues(svcs)]
    ELSE CreateServices(CatalogV2, << >>, 1, date)

\* version 1 lists the map; version 2 creates the catalog once more
GetServicesEffect(v, svcs, counter, date) ==
  IF v = 1
    THEN [services |-> svcs, serviceIdCounter |-> counter, results |-> MapValues(svcs)]
    ELSE CreateServices(CatalogV2, svcs, counter, date)

getServices ==
  /\ Call
  /\ LET r == GetServicesEffect(version, services, serviceIdCounter, now)
     IN  /\ services' = r.services
         /\ serviceIdCounter' = r.serviceIdCounter
         /\ ret' = [op |-> "getServices", value |-> r.results]
  /\ UNCHANGED << version, userPart, orderPart, seedPart, now >>

createOrder ==
  /\ Call
  /\ \E insertOrder \in OrderInputs :
       LET id == orderIdCounter
           order == NewOrder(insertOrder, id, now)
       IN  /\ orderIdCounter' = orderIdCounter + 1
           /\ orders' = MapSet(orders, id, order)
           /\ ret' = [op |-> "createOrder", value |-> order]
  /\ UNCHANGED << version, userPart, servicePart, seedPart, now >>

\* updateOrderStatus putting the payment back to pending as well
WithStatusResetsPayment(order, status, date) ==
  Spread(order, [status |-> status, payment_status |-> "pending", updated_at |-> date])

WithStatus(order, status, date) ==
  Spread(order, [status |-> status, updated_at |-> date])
WithPaymentStatus(order, status, date) ==
  Spread(order, [payment_status |-> status, updated_at |-> date])

\* an updateOrderStatus that creates the order it does not find
updateOrderStatusUpserts ==
  /\ Call
  /\ \E id \in OrderIds, status \in OrderStatuses :
       LET order == MapGet(orders, id)
           updatedOrder == WithStatus(IF order = NoRecord THEN [id |-> id] ELSE order,
                                      status, now)
       IN  /\ orders' = MapSet(orders, id, updatedOrder)
           /\ ret' = [op |-> "updateOrderStatus", id |-> id, value |-> updatedOrder]
  /\ UNCHANGED << version, userPart, servicePart, orderIdCounter, seedPart, now >>

updateOrderStatus ==
  /\ Call
  /\ \E id \in OrderIds, status \in OrderStatuses :
       LET order == MapGet(orders, id)
       IN  IF order = NoRecord
             THEN /\ ret' = [op |-> "updateOrderStatus", id |-> id, value |-> NoRecord]
                  /\ UNCHANGED orders
             ELSE LET updatedOrder == WithStatus(order, status, now)
                  IN  /\ orders' = MapSet(orders, id, updatedOrder)
                      /\ ret' = [op |-> "updateOrderStatus", id |-> id, value |-> updatedOrder]
  /\ UNCHANGED << version, userPart, servicePart, orderIdCounter, seedPart, now >>

updatePaymentStatus ==
  /\ Call
  /\ \E id \in OrderIds, status \in PaymentStatuses :
       LET order == MapGet(orders, id)
       IN  IF order = NoRecord
             THEN /\ ret' = [op |-> "updatePaymentStatus", id |-> id, value |-> NoRecord]
                  /\ UNCHANGED orders
             ELSE LET updatedOrder == WithPaymentStatus(order, status, now)
                  IN  /\ orders' = MapSet(orders, id, updatedOrder)
                      /\ ret' = [op |-> "updatePaymentStatus", id |-> id, value |-> updatedOrder]
  /\ UNCHANGED << version, userPart, servicePart, orderIdCounter, seedPart, now >>

\* ------------------------------------------------------- the UI's inputs
\* nobody signed in, or a user without a phone whose code holds characters
\* a URL encoder would change
AuthUsers ==
  { NoRecord,
    [name |-> "Asha", email |-> "asha@x.in", phone |-> NULL, referral_code |-> "A b&1"] }
TypedValues == { "", "new" }
Origins == { "https://quicktech.in", "http://localhost:5000" }

\* user?.field
OptProp(obj, field) == IF obj = NoRecord THEN UNDEFINED ELSE Prop(obj, field)
\* a || b on strings, null and undefined
OrElse(a, b) == IF a \in { UNDEFINED, NULL, "" } THEN b ELSE a
\* `${v}`
TemplateString(v) ==
  IF v = UNDEFINED THEN "undefined" ELSE IF v = NULL THEN "null" ELSE v

\* JSON.stringify of a flat object: its own properties in property order,
\* as key and value pairs, those with an undefined value left out
PropertyOrder == << "name", "email", "phone" >>
JSONStringify(obj) ==
  LET Kept(k) == k \in DOMAIN obj /\ obj[k] # UNDEFINED
      keys == SelectSeq(PropertyOrder, Kept)
  IN  [i \in 1..Len(keys) |-> << keys[i], IF obj[keys[i]] = NULL THEN "null" ELSE obj[keys[i]] >>]

\* ----------------------------------------------------------- ProfileCard
InitialFormData(user) ==
  [name |-> OrElse(OptProp(user, "name"), ""),
   email |-> OrElse(OptProp(user, "email"), ""),
   phone |-> OrElse(OptProp(user, "phone"), "")]

ProfileInit ==
  /\ isEditing = FALSE
  /\ formData = InitialFormData(authUser)
  /\ saves = << >>
  /\ saveCount = 0
  /\ lastResponse = "none"
  /\ profileToasts = << >>
  /\ lastTyped = InitialFormData(authUser)

\* the auth context delivers another user (login, logout, refetch)
AuthChange ==
  /\ \E user \in AuthUsers : user # authUser /\ authUser' = user

StartEdit ==
  /\ ~isEditing
  /\ isEditing' = TRUE
  /\ UNCHANGED << formData, saves, saveCount, lastResponse, profileToasts, lastTyped >>

CancelEdit ==
  /\ isEditing
  /\ isEditing' = FALSE
  /\ UNCHANGED << formData, saves, saveCount, lastResponse, profileToasts, lastTyped >>

\* onChange without the spread of the previous form state
OnChangeFieldOnly(field, value) == field :> value

\* onChange of one of the three inputs
OnChangeField(field, value) == Spread(formData, field :> value)
OnChange ==
  /\ isEditing
  /\ \E field \in { "name", "email", "phone" }, value \in TypedValues :
       /\ formData' = OnChangeField(field, value)
       /\ lastTyped' = [lastTyped EXCEPT ![field] = value]
  /\ UNCHANGED << isEditing, saves, saveCount, lastResponse, profileToasts >>

\* handleSave up to its await: the request leaves with the form's fields
handleSave ==
  /\ isEditing
  /\ saveCount < MaxSaves
  /\ saveCount' = saveCount + 1
  /\ saves' = Append(saves, JSONStringify(formData))
  /\ UNCHANGED << isEditing, formData, lastResponse, profileToasts, lastTyped >>

\* the sequence without its i-th element
RemoveAt(seq, i) == SubSeq(seq, 1, i - 1) \o SubSeq(seq, i + 1, Len(seq))

\* the response is 2xx
SaveOk ==
  /\ \E i \in 1..Len(saves) : saves' = RemoveAt(saves, i)
  /\ lastResponse' = "ok"
  /\ profileToasts' = Append(profileToasts, "Profile Updated")
  /\ isEditing' = FALSE
  /\ UNCHANGED << formData, saveCount, lastTyped >>

\* a catch block that rolls the form back to the user's values
SaveFailRollsBack == isEditing' = isEditing /\ formData' = InitialFormData(authUser)
\* a catch block that leaves edit mode
SaveFailCloses == isEditing' = FALSE /\ UNCHANGED formData

\* fetch rejects, or the response is not 2xx: the catch block
SaveFailEffect == isEditing' = isEditing /\ UNCHANGED formData
\* a catch block that notifies and sends the request again
SaveFailRetries ==
  /\ saves # << >>
  /\ saves' = saves
  /\ \E outcome \in { "rejected", "non2xx" } : lastResponse' = outcome
  /\ profileToasts' = Append(profileToasts, "Update Failed")
  /\ SaveFailEffect
  /\ UNCHANGED << saveCount, lastTyped >>
SaveFail ==
  /\ \E i \in 1..Len(saves) : saves' = RemoveAt(saves, i)
  /\ \E outcome \in { "rejected", "non2xx" } : lastResponse' = outcome
  /\ profileToasts' = Append(profileToasts, "Update Failed")
  /\ SaveFailEffect
  /\ UNCHANGED << saveCount, lastTyped >>

\* ---------------------------------------------------------- ReferralCard
referralLinkOf(org, user) ==
  org \o "/auth?ref=" \o TemplateString(OptProp(user, "referral_code"))
referralLink == referralLinkOf(origin, authUser)

ReferralInit ==
  /\ origin \in Origins
  /\ copied = FALSE
  /\ copies = << >>
  /\ timers = 0
  /\ clipboard = ""
  /\ referralToasts = << >>

\* copyToClipboard up to its await
copyToClipboard ==
  /\ Len(copies) < MaxCopies
  /\ copies' = Append(copies, [text |-> referralLink, state |-> "writing"])
  /\ UNCHANGED << origin, copied, timers, clipboard, referralToasts >>

\* a successful copy that schedules no timer
CopyOkNoTimer ==
  /\ \E i \in 1..Len(copies) :
       /\ copies[i].state = "writing"
       /\ copies' = [copies EXCEPT ![i].state = "ok"]
       /\ clipboard' = copies[i].text
  /\ copied' = TRUE
  /\ referralToasts' = Append(referralToasts, "Copied!")
  /\ UNCHANGED << origin, timers >>

CopyOk ==
  /\ \E i \in 1..Len(copies) :
       /\ copies[i].state = "writing"
       /\ copies' = [copies EXCEPT ![i].state = "ok"]
       /\ clipboard' = copies[i].text
  /\ copied' = TRUE
  /\ referralToasts' = Append(referralToasts, "Copied!")
  /\ timers' = timers + 1
  /\ UNCHANGED origin

CopyFail ==
  /\ \E i \in 1..Len(copies) :
       /\ copies[i].state = "writing"
       /\ copies' = [copies EXCEPT ![i].state = "failed"]
  /\ referralToasts' = Append(referralToasts, "Error")
  /\ UNCHANGED << origin, copied, timers, clipboard >>

\* a setTimeout callback runs, 2000 ms after its copy
TimerFire ==
  /\ timers > 0
  /\ timers' = timers - 1
  /\ copied' = FALSE
  /\ UNCHANGED << origin, copies, clipboard, referralToasts >>

\* ------------------------------------------------------- specifications
\* the storage module within one reading of the clock
StoreNext ==
  \/ createUser
  \/ SeedLookup
  \/ SeedCheck
  \/ SeedCreateTestUser
  \/ SeedHashAdmin
  \/ SeedCreateAdmin
  \/ SeedElevate
  \/ createService
  \/ getServices
  \/ createOrder
  \/ updateOrderStatus
  \/ updatePaymentStatus

Init ==
  /\ StoreInit
  /\ authUser = NoRecord
  /\ ProfileInit
  /\ ReferralInit
  /\ origin = "https://quicktech.in"
Next == StoreNext /\ UNCHANGED << authUser, profileVars, referralVars >>
Spec == Init /\ [][Next]_vars

\* the order operations with the clock advancing between them
OrderNext ==
  \/ Tick
  \/ createOrder
  \/ updateOrderStatus
  \/ updatePaymentStatus
ClockNext == OrderNext /\ UNCHANGED << authUser, profileVars, referralVars >>
ClockSpec == Init /\ [][ClockNext]_vars

ProfileInitAll ==
  /\ StoreInit
  /\ version = 1
  /\ authUser \in AuthUsers
  /\ ProfileInit
  /\ ReferralInit
  /\ origin = "https://quicktech.in"
ProfileNext ==
  \/ AuthChange /\ UNCHANGED << storeVars, profileVars, referralVars >>
  \/ StartEdit /\ UNCHANGED << storeVars, authUser, referralVars >>
  \/ CancelEdit /\ UNCHANGED << storeVars, authUser, referralVars >>
  \/ OnChange /\ UNCHANGED << storeVars, authUser, referralVars >>
  \/ handleSave /\ UNCHANGED << storeVars, authUser, referralVars >>
  \/ SaveOk /\ UNCHANGED << storeVars, authUser, referralVars >>
  \/ SaveFail /\ UNCHANGED << storeVars, authUser, referralVars >>
ProfileSpec == ProfileInitAll /\ [][ProfileNext]_vars

ReferralInitAll ==
  /\ StoreInit
  /\ version = 1
  /\ authUser \in AuthUsers
  /\ ProfileInit
  /\ ReferralInit
ReferralNext ==
  \/ AuthChange /\ UNCHANGED << storeVars, profileVars, referralVars >>
  \/ copyToClipboard /\ UNCHANGED << storeVars, authUser, profileVars >>
  \/ CopyOk /\ UNCHANGED << storeVars, authUser, profileVars >>
  \/ CopyFail /\ UNCHANGED << storeVars, authUser, profileVars >>
  \/ TimerFire /\ UNCHANGED << storeVars, authUser, profileVars >>
ReferralSpec == ReferralInitAll /\ [][ReferralNext]_vars

\* the referral card with the event loop running every timer that is due
ReferralFairSpec ==
  /\ ReferralInitAll
  /\ [][ReferralNext]_vars
  /\ WF_vars(TimerFire /\ UNCHANGED << storeVars, authUser, profileVars >>)

\* ================================================================ claims
\* C1: every createUser call, the seed's two included, returns an id
\* greater than every id returned before it, and no two stored users share
\* an id.
C1_UserIdsStrictlyIncreasing ==
  /\ \A i, j \in 1..Len(userIdsReturned) :
       i < j => userIdsReturned[i] < userIdsReturned[j]
  /\ \A i, j \in 1..Len(users) : i # j => users[i].value.id # users[j].value.id

\* a caller's createUser landed between the seed's two, and the seed is done
C1_Witness ==
  /\ seedPc = "done"
  /\ userIdsReturned = << 1, 2, 3 >>
  /\ users[1].value.username = "testuser"
  /\ users[2].value.username = "bob"
  /\ users[3].value.username = "admin"

Categories ==
  { CatalogV1[i].category : i \in 1..Len(CatalogV1) }
    \cup { CatalogV2[i].category : i \in 1..Len(CatalogV2) } \cup { "Misc", "Nowhere" }

\* C2: for every category c, getServicesByCategory(c) holds every service of
\* the catalog whose category is c, holds no service of another category,
\* and lists its services in ascending id order.
C2_CategoryFilterExact ==
  \A c \in Categories :
    LET r == getServicesByCategory(c)
        catalog == Catalog(version)
    IN  /\ \A i \in 1..Len(catalog) :
             catalog[i].category = c =>
               \E k \in 1..Len(r) : r[k].name = catalog[i].name /\ r[k].price = catalog[i].price
        /\ \A k \in 1..Len(r) : r[k].category = c
        /\ \A k, l \in 1..Len(r) : k < l => r[k].id < r[l].id

\* C7: in each of the three maps every record sits under the key equal to
\* its id, no two records share an id, and the counter is above every id.
MapIdsSound(m, counter) ==
  /\ \A i \in 1..Len(m) : m[i].key = m[i].value.id /\ m[i].value.id < counter
  /\ \A i, j \in 1..Len(m) : i # j => m[i].value.id # m[j].value.id
C7_IdsUniquePerEntity ==
  /\ MapIdsSound(users, userIdCounter)
  /\ MapIdsSound(services, serviceIdCounter)
  /\ MapIdsSound(orders, orderIdCounter)

\* the later version after two getServices calls and a createService whose
\* input carried an id of its own, with the seed's accounts in place
C7_Witness ==
  /\ version = 2
  /\ Len(services) = 2 * Len(CatalogV2) + 1
  /\ \E i \in 1..Len(services) : services[i].value.name = "Other"
  /\ seedPc = "done"

\* a step that is a caller's getServices call
IsGetServicesStep == calls' = calls + 1 /\ ret'.op = "getServices"
Keys(m) == { m[i].key : i \in 1..Len(m) }

\* C8 as stated: in the later version every getServices call discards the
\* records the map held and reseeds the catalog, and the reseeded records
\* reuse ids of earlier records.
C8_GetServicesDiscardsAndDuplicatesIds ==
  [][ (version = 2 /\ IsGetServicesStep) =>
        /\ \A i \in 1..Len(services) :
             ~ \E k \in 1..Len(services') : services'[k] = services[i]
        /\ Len(services') = Len(CatalogV2)
        /\ (services # << >> => Keys(services') \cap Keys(services) # {}) ]_vars

\* C8 amended: in the later version every getServices call keeps the records
\* the map held and appends one record per catalog entry, in catalog order,
\* under the next unused ids; the catalog's entries get duplicated, ids never.
C8_GetServicesAppendsCatalog ==
  [][ (version = 2 /\ IsGetServicesStep) =>
        /\ Len(services') = Len(services) + Len(CatalogV2)
        /\ SubSeq(services', 1, Len(services)) = services
        /\ \A k \in 1..Len(CatalogV2) :
             LET e == services'[Len(services) + k]
             IN  /\ e.key = serviceIdCounter + k - 1
                 /\ e.key \notin Keys(services)
                 /\ e.value.id = e.key
                 /\ e.value.name = CatalogV2[k].name
                 /\ ret'.value[k] = e.value
        /\ serviceIdCounter' = serviceIdCounter + Len(CatalogV2) ]_vars

\* two calls: the first catalog entry is stored twice, under two ids
C8_Witness ==
  /\ version = 2
  /\ ret.op = "getServices"
  /\ Len(services) = 2 * Len(CatalogV2)
  /\ services[1].value.name = services[1 + Len(CatalogV2)].value.name
  /\ services[1].key # services[1 + Len(CatalogV2)].key

\* C9: when the constructor has returned and nothing else has run, the
\* services map holds one record per catalog entry, with ids 1..N in
\* catalog order, so that getService(1) finds a seeded record.
C9_CatalogSeededAtStartup ==
  (ret.op = "constructor" /\ seedPc = "import") =>
    LET catalog == Catalog(version)
    IN  /\ Len(services) = Len(catalog)
        /\ \A i \in 1..Len(catalog) :
             /\ services[i].key = i
             /\ services[i].value.id = i
             /\ services[i].value.name = catalog[i].name
             /\ services[i].value.category = catalog[i].category
        /\ getService(1) # NoRecord

\* C10: a new order is stored and returned with status and payment_status
\* "pending" whatever the input held; the status of a stored order changes
\* only in an updateOrderStatus call on its id, and its payment_status only
\* in an updatePaymentStatus call on its id.
C10_OrderLifecycle ==
  [][ /\ \A i \in 1..Len(orders') :
           i > Len(orders) =>
             /\ orders'[i].value.status = "pending"
             /\ orders'[i].value.payment_status = "pending"
             /\ ret'.op = "createOrder"
             /\ ret'.value = orders'[i].value
      /\ \A i \in 1..Len(orders) :
           /\ i <= Len(orders')
           /\ orders'[i].key = orders[i].key
           /\ orders'[i].value.status # orders[i].value.status =>
                (ret'.op = "updateOrderStatus" /\ ret'.id = orders[i].key)
           /\ orders'[i].value.payment_status # orders[i].value.payment_status =>
                (ret'.op = "updatePaymentStatus" /\ ret'.id = orders[i].key) ]_vars

\* an order whose input asked for "completed" and "paid" was created as
\* pending, and then had its payment status, and nothing else, updated
C10_Witness ==
  \E i \in 1..Len(orders) :
    /\ orders[i].value.user_id = 7
    /\ orders[i].value.status = "pending"
    /\ orders[i].value.payment_status = "paid"
    /\ ret.op = "updatePaymentStatus"

\* ------------------------------------------------------------ ProfileCard
\* a step in which a handleSave's request fails
IsSaveFailStep ==
  /\ Len(saves') = Len(saves) - 1
  /\ lastResponse' \in { "rejected", "non2xx" }

\* C3: the body a handleSave sends holds exactly name, email and phone, each
\* with the last value put into that input, or the value the form started
\* with when the input was never edited.
C3_SaveBodyIsFormState ==
  [][ Len(saves') > Len(saves) =>
        saves'[Len(saves')] =
          << << "name", lastTyped.name >>, << "email", lastTyped.email >>,
             << "phone", lastTyped.phone >> >> ]_vars

\* a request left with a typed name, the user's email and the empty phone
\* the form started with
C3_Witness ==
  \E i \in 1..Len(saves) :
    saves[i] = << << "name", "new" >>, << "email", "asha@x.in" >>, << "phone", "" >> >>

\* C4: a failing save changes neither isEditing (edit mode stays open), nor
\* the form state, nor the authenticated user's values.
C4_FailedSaveChangesNothing ==
  [][ IsSaveFailStep =>
        /\ isEditing' = isEditing
        /\ formData' = formData
        /\ authUser' = authUser ]_vars

\* a save has failed with the form edited and edit mode still open
C4_Witness ==
  /\ lastResponse = "non2xx"
  /\ isEditing
  /\ formData.name = "new"
  /\ authUser # NoRecord
  /\ formData.name # authUser.name

\* C5 as stated: after a failing save isEditing is false.
C5_FailedSaveLeavesEditMode ==
  [][ IsSaveFailStep => ~isEditing' ]_vars

\* C5 amended: a failing save leaves isEditing as it was, so an open edit
\* mode stays open, and notifies the user with one "Update Failed" toast.
C5_FailedSaveKeepsEditModeAndNotifies ==
  [][ IsSaveFailStep =>
        /\ isEditing' = isEditing
        /\ profileToasts' = Append(profileToasts, "Update Failed") ]_vars

\* a rejected request: the toast is up and edit mode is open
C5_Witness ==
  /\ lastResponse = "rejected"
  /\ isEditing
  /\ profileToasts = << "Update Failed" >>

\* ----------------------------------------------------------- ReferralCard
\* C6: in every state there is an authenticated user whose referral_code,
\* character for character, follows the origin and "/auth?ref=" in the link
\* shown, and every link handed to the clipboard had that form.
C6_ReferralLinkEmbedsCode ==
  /\ authUser # NoRecord
  /\ referralLink = origin \o "/auth?ref=" \o authUser.referral_code
  /\ \A i \in 1..Len(copies) :
       \E user \in AuthUsers \ { NoRecord } :
         copies[i].text = origin \o "/auth?ref=" \o user.referral_code

\* ------------------------------------------------- MemStorage, continued
\* a step that is a caller's updateOrderStatus / updatePaymentStatus call
IsUpdateStatusStep == calls' = calls + 1 /\ ret'.op = "updateOrderStatus"
IsUpdatePaymentStep == calls' = calls + 1 /\ ret'.op = "updatePaymentStatus"

\* everything but the order of that id, and but two of that order's fields
FrameOfOrderUpdate(id, field) ==
  LET old == MapGet(orders, id)
      new == MapGet(orders', id)
  IN  /\ DOMAIN new = DOMAIN old
      /\ \A f \in DOMAIN old \ { field, "updated_at" } : new[f] = old[f]
      /\ new = ret'.value
      /\ Len(orders') = Len(orders)
      /\ \A i \in 1..Len(orders) : orders[i].key # id => orders'[i] = orders[i]
      /\ users' = users
      /\ services' = services
      /\ userIdCounter' = userIdCounter
      /\ serviceIdCounter' = serviceIdCounter
      /\ orderIdCounter' = orderIdCounter

\* C11: updateOrderStatus on a stored order changes only that order's status
\* and updated_at, updatePaymentStatus only its payment_status and
\* updated_at; both leave the other orders, the users, the services and the
\* three counters as they were.
C11_StatusAndPaymentIndependent ==
  [][ /\ (IsUpdateStatusStep /\ MapHas(orders, ret'.id)) =>
           FrameOfOrderUpdate(ret'.id, "status")
      /\ (IsUpdatePaymentStep /\ MapHas(orders, ret'.id)) =>
           FrameOfOrderUpdate(ret'.id, "payment_status") ]_vars

\* an order paid first and completed a tick later: the payment survived the
\* status update, and created_at stayed behind updated_at
C11_Witness ==
  /\ ret.op = "updateOrderStatus"
  /\ ret.value # NoRecord
  /\ ret.value.status = "completed"
  /\ ret.value.payment_status = "paid"
  /\ ret.value.created_at = 0
  /\ ret.value.updated_at = 1
  /\ MapGet(orders, ret.id) = ret.value

\* C12: a service once stored stays stored, under its id and with every one
\* of its fields, through every later step, in both versions of the module.
C12_ServicesImmutable ==
  [][ \/ services' = services
      \/ \A i \in 1..Len(services) :
           getService(services[i].key)' = services[i].value ]_vars

\* the later version: a caller's service, stored first, is still the first
\* record after getServices has run twice
C12_Witness ==
  /\ version = 2
  /\ ret.op = "getServices"
  /\ Len(services) = 1 + 2 * Len(CatalogV2)
  /\ getService(1) # NoRecord
  /\ getService(1).name = "Custom"
  /\ getService(1).badge = NULL

\* what callers look up, and which strings differ in case only
LookupUsernames == { "testuser", "TestUser", "ADMIN", "admin", "bob", "nobody" }
LookupEmails == { "test@example.com", "Test@Example.com", "bob@x.in", "none@x.in" }
CaseClasses ==
  { { "testuser", "TestUser" }, { "admin", "ADMIN" },
    { "test@example.com", "Test@Example.com" } }
SameIgnoringCase(a, b) == a = b \/ \E c \in CaseClasses : a \in c /\ b \in c

\* the user of the smallest id among those whose field matches, if any
FirstCreatedMatch(field, text, found) ==
  LET matching == { i \in 1..Len(users) : SameIgnoringCase(users[i].value[field], text) }
  IN  IF matching = {}
        THEN found = NoRecord
        ELSE /\ found # NoRecord
             /\ \E i \in matching :
                  /\ found = users[i].value
                  /\ \A j \in matching : users[i].value.id <= users[j].value.id

\* C13: getUserByUsername(u) finds a user exactly when some stored username
\* equals u up to case, and then the one created first; getUserByEmail does
\* the same on the email.
C13_LookupIgnoresCase ==
  /\ \A u \in LookupUsernames : FirstCreatedMatch("username", u, getUserByUsername(u))
  /\ \A e \in LookupEmails : FirstCreatedMatch("email", e, getUserByEmail(e))

\* "TestUser" was stored before the seed's "testuser": both lookups, in
\* either case, find the older one, and "ADMIN" finds the seed's admin
C13_Witness ==
  /\ Len(users) >= 3
  /\ users[1].value.username = "TestUser"
  /\ users[2].value.username = "testuser"
  /\ getUserByUsername("testuser") = users[1].value
  /\ getUserByEmail("test@example.com") = users[1].value
  /\ getUserByUsername("ADMIN") # NoRecord
  /\ getUserByUsername("ADMIN").username = "admin"

\* C14: what createUser returns has role "user" whatever the input asked
\* for; a stored user with another role is the seed's 'admin' account and
\* nobody else, and it is the record createUser returned to the seed with
\* the role, and only the role, replaced.
C14_OnlySeedAdminElevated ==
  /\ ret.op = "createUser" => ret.value.role = "user"
  /\ \A i \in 1..Len(users) :
       users[i].value.role # "user" =>
         /\ seedPc = "done"
         /\ users[i].value.username = "admin"
         /\ adminUser # NoRecord
         /\ adminUser.role = "user"
         /\ users[i].key = adminUser.id
         /\ users[i].value = [adminUser EXCEPT !.role = "admin"]

\* the seed has elevated its admin, and bob, who asked for the admin role
\* and an id of his own, is an ordinary user under the counter's id
C14_Witness ==
  /\ seedPc = "done"
  /\ \E i \in 1..Len(users) :
       users[i].value.username = "admin" /\ users[i].value.role = "admin"
  /\ \E i \in 1..Len(users) :
       /\ users[i].value.username = "bob"
       /\ users[i].value.role = "user"
       /\ users[i].value.id = users[i].key

\* a step that is a caller's createOrder call
IsCreateOrderStep == calls' = calls + 1 /\ ret'.op = "createOrder"

\* C15: createOrder never looks the user up: every call stores, under the
\* counter's so far unused id, an order carrying the user_id it was given,
\* and returns it, also when getUser knows no such user.
C15_NoForeignKeyCheck ==
  [][ IsCreateOrderStep =>
        /\ \E insertOrder \in OrderInputs :
             /\ ret'.value.user_id = insertOrder.user_id
             /\ ret'.value.service_id = insertOrder.service_id
        /\ ret'.value.id = orderIdCounter
        /\ ~MapHas(orders, orderIdCounter)
        /\ MapGet(orders', orderIdCounter) = ret'.value
        /\ Len(orders') = Len(orders) + 1
        /\ users' = users ]_vars

\* an order is stored for user 7 while users exist and none has that id
C15_Witness ==
  /\ ret.op = "createOrder"
  /\ ret.value.user_id = 7
  /\ users # << >>
  /\ getUser(7) = NoRecord
  /\ getOrder(ret.value.id) = ret.value
  /\ getOrdersByUserId(7) = << ret.value >>


\* ---------------------------------------------------- ProfileCard, continued
\* C16: one handleSave sends one PUT and nothing else; a request leaves the
\* network only by settling, which shows exactly one toast, "Profile Updated"
\* together with leaving edit mode when the response is 2xx and "Update
\* Failed" otherwise; nothing is sent again, so toasts and requests in flight
\* always add up to the number of handleSave calls.
C16_OneRequestOneToast ==
  [][ /\ saveCount' = saveCount + 1 =>
           /\ saves' = Append(saves, JSONStringify(formData))
           /\ profileToasts' = profileToasts
      /\ saveCount' = saveCount => Len(saves') <= Len(saves)
      /\ profileToasts' # profileToasts =>
           /\ saveCount' = saveCount
           /\ Len(saves') = Len(saves) - 1
           /\ profileToasts' =
                Append(profileToasts, IF lastResponse' = "ok" THEN "Profile Updated"
                                                              ELSE "Update Failed")
           /\ lastResponse' = "ok" => ~isEditing'
           /\ lastResponse' # "ok" => isEditing' = isEditing
      /\ Len(saves') < Len(saves) => Len(profileToasts') = Len(profileToasts) + 1
      /\ Len(profileToasts') + Len(saves') = saveCount' ]_vars

\* two saves were made, the first failed and the second succeeded
C16_Witness ==
  /\ saveCount = 2
  /\ saves = << >>
  /\ profileToasts = << "Update Failed", "Profile Updated" >>
  /\ lastResponse = "ok"
  /\ ~isEditing


\* the seed's createUser call for 'testuser'
IsSeedInsertStep == seedPc = "hash1" /\ seedPc' = "created1"

\* C18: whenever the seed inserts 'testuser', its own lookup would find no
\* user of that name at that moment, so the seed never adds a second one.
C18_SeedInsertsOnlyIfAbsent ==
  [][ IsSeedInsertStep =>
        /\ getUserByUsername("testuser") = NoRecord
        /\ Cardinality({ i \in 1..Len(users') :
                           users'[i].value.username = "testuser" }) = 1 ]_vars

\* C19: updateOrderStatus and updatePaymentStatus with an id the orders map
\* does not hold return undefined and leave the map, with no order added,
\* and the order id counter as they were.
C19_MissingOrderUpdateIsNoOp ==
  [][ ((IsUpdateStatusStep \/ IsUpdatePaymentStep) /\ ~MapHas(orders, ret'.id)) =>
        /\ ret'.value = NoRecord
        /\ orders' = orders
        /\ orderIdCounter' = orderIdCounter
        /\ ~MapHas(orders', ret'.id) ]_vars

\* with one order stored, an update of order 2 returned undefined
C19_Witness ==
  /\ ret.op \in { "updateOrderStatus", "updatePaymentStatus" }
  /\ ret.id = 2
  /\ ret.value = NoRecord
  /\ Len(orders) = 1
  /\ getOrder(1) # NoRecord
  /\ getOrder(2) = NoRecord
  /\ orderIdCounter = 2

\* the user ids order listings are asked for: two that orders carry, one
\* that none does
QueriedUserIds == { 1, 3, 7 }

\* the listing holds the orders of ids 1..n, each once, by ascending id
ListsEveryOrderOnce(list, n) ==
  /\ Len(list) = n
  /\ \A i \in 1..n : list[i].id = i

\* part holds exactly the orders of list that belong to userId, in list's
\* relative order
IsListingOfUser(part, list, userId) ==
  /\ \A j \in 1..Len(part) : part[j].user_id = userId /\ part[j] = list[part[j].id]
  /\ \A j, k \in 1..Len(part) : j < k => part[j].id < part[k].id
  /\ Len(part) = Cardinality({ i \in 1..Len(list) : list[i].user_id = userId })

\* C20: after every createOrder, updateOrderStatus and updatePaymentStatus
\* call getOrders lists each created order once, by ascending id, and
\* getOrdersByUserId(u) lists exactly u's orders in that same order; an
\* order in the listing differs from what it was only by the update just
\* made to it, whose returned record it then is.
C20_ListingsKeepCreationOrder ==
  [][ /\ ListsEveryOrderOnce(getOrders', orderIdCounter' - 1)
      /\ \A userId \in QueriedUserIds :
           IsListingOfUser(getOrdersByUserId(userId)', getOrders', userId)
      /\ \A i \in 1..Len(orders) :
           \/ getOrders'[i] = getOrders[i]
           \/ /\ IsUpdateStatusStep \/ IsUpdatePaymentStep
              /\ ret'.id = i
              /\ getOrders'[i] = ret'.value ]_vars

\* two orders of user 1 exist and the first was then completed: it is still
\* listed first, with its new status
C20_Witness ==
  /\ ret.op = "updateOrderStatus"
  /\ ret.id = 1
  /\ ret.value # NoRecord
  /\ ret.value.status = "completed"
  /\ Len(getOrders) = 2
  /\ getOrdersByUserId(1) = << ret.value, getOrder(2) >>
  /\ getOrders = getOrdersByUserId(1)
  /\ getOrdersByUserId(7) = << >>

\* --------------------------------------------------- ReferralCard, continued
\* the clipboard write of some copy settles as st in this step
CopySettles(st) ==
  \E i \in 1..Len(copies) : copies[i].state = "writing" /\ copies'[i].state = st

\* C17: copied turns true only in the step where a clipboard write of the
\* link succeeds, which also notifies "Copied!" and schedules a timer; a
\* failed write changes nothing but the "Error" notification; and whenever
\* copied is true it is false again later, however the copies overlap.
C17_CopiedIsTransient ==
  /\ [][ /\ (copied' /\ ~copied) => CopySettles("ok")
         /\ CopySettles("ok") =>
              /\ \E i \in 1..Len(copies) :
                   /\ copies[i].state = "writing" /\ copies'[i].state = "ok"
                   /\ clipboard' = copies[i].text
                   /\ \E user \in AuthUsers : copies[i].text = referralLinkOf(origin, user)
              /\ copied'
              /\ timers' = timers + 1
              /\ referralToasts' = Append(referralToasts, "Copied!")
         /\ CopySettles("failed") =>
              /\ copied' = copied
              /\ clipboard' = clipboard
              /\ timers' = timers
              /\ referralToasts' = Append(referralToasts, "Error")
         /\ copied' => timers' > 0 ]_vars
  /\ copied ~> ~copied

\* two copies succeeded one after the other; the first one's timer has
\* cleared the flag while the second one's is still to fire
C17_Witness ==
  /\ Len(copies) = 2
  /\ \A i \in 1..2 : copies[i].state = "ok"
  /\ referralToasts = << "Copied!", "Copied!" >>
  /\ ~copied
  /\ timers = 1
====
